---- MODULE Spec2Model ----
(***************************************************************************)
(* Model of Create_Data.py: the synthetic electricity-bill dataset         *)
(* generator.  One run seeds the two random generators, builds n records   *)
(* in a loop, assembles them in a DataFrame, nulls fields by 1-based       *)
(* position and writes the frame as a CSV file.                            *)
(*                                                                         *)
(* Numbers.  The script computes in floating point; the model computes the *)
(* same formulas exactly, on decimal fixed-point numerators:               *)
(*   temp     milli-degrees            price    units of 10^-9             *)
(*   tax      units of 10^-7           consum   units of 10^-10 (Big)      *)
(*   bill     units of 10^-26 (Big)                                        *)
(* and stores what round(x, 2) / round(x, 4) store: hundredths and         *)
(* ten-thousandths.  Numbers beyond 32 bits are naturals in base 10^4,     *)
(* least significant limb first ("Big").                                   *)
(*                                                                         *)
(* Randomness.  random and numpy.random are two seeded deterministic       *)
(* generators; each is modelled as a generator state advanced once per     *)
(* draw.  Gaussian draws pick a standard-normal deviate (in thousandths)   *)
(* from ZSamples and scale it by loc and scale as np.random.normal does.   *)
(***************************************************************************)
EXTENDS Integers, Sequences, FiniteSets, TLC

VARIABLES pc, n, i, rows, built, df, out, pyState, npState, run, prevOut

vars == <<pc, n, i, rows, built, df, out, pyState, npState, run, prevOut>>

\* Largest record count explored.
MaxN == 1500

\* Record counts a run may be asked for (n, line 12, is the parameter).
NValues == {-1, 0, 1, MaxN}

\* Largest record count explored when the script is run twice.
MaxTwiceN == 150

\* Record counts of the runs that are repeated.
NValuesTwice == {-1, 0, 1, 2, MaxTwiceN}

\* What an unseeded generator would start from (operating-system entropy).
Entropy == {7, 42, 1234}

-----------------------------------------------------------------------------
(* Reference tables, lines 14-57 *)

governorates ==
    <<"Cairo", "Giza", "Alexandria", "Sharqia", "Dakahlia",
      "Beheira", "Minya", "Asyut", "Luxor", "Suez">>

cities_by_gov ==
    [Cairo |-> <<"Nasr City", "Heliopolis", "Maadi", "Dokki", "Zamalek", "Zaytoun", "New Cairo">>,
     Giza |-> <<"6th of October", "Sheikh Zayed", "Giza City", "Imbaba", "Haram">>,
     Alexandria |-> <<"Sidi Gaber", "Smouha", "Stanley">>,
     Sharqia |-> <<"Zagazig", "Belbeis", "Abu Hammad", "10th of Ramadan">>,
     Dakahlia |-> <<"Mansoura", "Talkha", "Mit Ghamr", "Sherbin">>,
     Beheira |-> <<"Damanhour", "Kafr El Dawwar">>,
     Minya |-> <<"Minya City", "Beni Mazar", "Maghagha">>,
     Asyut |-> <<"Asyut City", "Manfalut", "Abnoub">>,
     Luxor |-> <<"Luxor City", "El Qurna", "Esna">>,
     Suez |-> <<"Suez City", "Ain Sokhna", "El Galala">>]

building_types == <<"Apartment", "Villa", "Office">>

months == <<1, 2, 3, 4, 5, 6, 7, 8, 9, 10, 11, 12>>

season_from_month(m) ==
    IF m \in {12, 1, 2} THEN "Winter"
    ELSE IF m \in {3, 4, 5} THEN "Spring"
    ELSE IF m \in {6, 7, 8} THEN "Summer"
    ELSE "Autumn"

\* degrees
base_temp ==
    [Cairo |-> 25, Giza |-> 25, Alexandria |-> 22, Sharqia |-> 24, Dakahlia |-> 24,
     Beheira |-> 23, Minya |-> 27, Asyut |-> 28, Luxor |-> 30, Suez |-> 29]

\* hundredths
base_price ==
    [Cairo |-> 85, Giza |-> 82, Alexandria |-> 80, Sharqia |-> 78, Dakahlia |-> 77,
     Beheira |-> 76, Minya |-> 75, Asyut |-> 74, Luxor |-> 73, Suez |-> 79]

\* hundredths
building_price_multiplier == [Apartment |-> 100, Villa |-> 115, Office |-> 125]

\* hundredths
tax_base ==
    [Cairo |-> 14, Giza |-> 12, Alexandria |-> 13, Sharqia |-> 11, Dakahlia |-> 10,
     Beheira |-> 10, Minya |-> 9, Asyut |-> 8, Luxor |-> 7, Suez |-> 12]

\* degrees
seasonal_adjust == [Winter |-> -6, Spring |-> 0, Summer |-> 6, Autumn |-> 0]

-----------------------------------------------------------------------------
(* Random generators *)

\* One step of a seeded generator: the next state, which is also the raw draw.
Advance(s) == (75 * s + 74) % 65537

RandomSeedUnseeded(seed, entropy) == entropy % 65537

\* random.seed(42), line 9: the state depends on the seed alone.
RandomSeed(seed, entropy) == seed % 65537

NpSeedUnseeded(seed, entropy) == entropy % 65537

\* np.random.seed(42), line 10.
NpSeed(seed, entropy) == seed % 65537

\* The seed both generators are given (lines 9-10).
Seed == 42

\* random.choice(seq): a uniform pick.
Choice(seq, u) == seq[1 + (u % Len(seq))]

RECURSIVE SumSeq(_)
SumSeq(s) == IF s = <<>> THEN 0 ELSE Head(s) + SumSeq(Tail(s))

RECURSIVE CumIndex(_, _, _)
CumIndex(weights, k, v) ==
    IF k = Len(weights) \/ v < weights[k] THEN k
    ELSE CumIndex(weights, k + 1, v - weights[k])

\* random.choices(seq, weights) / np.random.choice(seq, p): a pick by
\* cumulative weight; the weights are integers in proportion.
WeightedChoice(seq, weights, u) == seq[CumIndex(weights, 1, u % SumSeq(weights))]

\* Standard-normal deviates a Gaussian draw may return, in thousandths.
ZSamples == <<-9000, -8400, -8333, -3107, -1499, -333, 0, 251, 1049, 2005, 4513, 9000>>

StdNormal(u) == ZSamples[1 + (u % Len(ZSamples))]

Range(lo, hi) == [k \in 1..(hi - lo + 1) |-> lo + k - 1]

-----------------------------------------------------------------------------
(* Exact arithmetic on naturals in base 10^4, least significant limb first *)

RECURSIVE Big(_)
Big(x) == IF x = 0 THEN <<>> ELSE <<x % 10000>> \o Big(x \div 10000)

RECURSIVE BigVal(_)
BigVal(a) == IF a = <<>> THEN 0 ELSE Head(a) + 10000 * BigVal(Tail(a))

RECURSIVE BigTrim(_)
BigTrim(a) ==
    IF a = <<>> THEN <<>>
    ELSE IF a[Len(a)] = 0 THEN BigTrim(SubSeq(a, 1, Len(a) - 1))
    ELSE a

RECURSIVE BigAddC(_, _, _)
BigAddC(a, b, c) ==
    IF a = <<>> /\ b = <<>> THEN (IF c = 0 THEN <<>> ELSE <<c>>)
    ELSE LET x == IF a = <<>> THEN 0 ELSE Head(a)
             y == IF b = <<>> THEN 0 ELSE Head(b)
             s == x + y + c
         IN  <<s % 10000>> \o BigAddC(IF a = <<>> THEN <<>> ELSE Tail(a),
                                     IF b = <<>> THEN <<>> ELSE Tail(b),
                                     s \div 10000)

BigAdd(a, b) == BigAddC(a, b, 0)

RECURSIVE BigMulLimb(_, _, _)
BigMulLimb(a, m, c) ==
    IF a = <<>> THEN (IF c = 0 THEN <<>> ELSE <<c>>)
    ELSE LET p == Head(a) * m + c
         IN  <<p % 10000>> \o BigMulLimb(Tail(a), m, p \div 10000)

RECURSIVE BigMul(_, _)
BigMul(a, b) ==
    IF b = <<>> \/ a = <<>> THEN <<>>
    ELSE BigTrim(BigAdd(BigMulLimb(a, Head(b), 0), <<0>> \o BigMul(a, Tail(b))))

RECURSIVE BigLess(_, _)
\* a < b, for trimmed a and b
BigLess(a, b) ==
    IF Len(a) # Len(b) THEN Len(a) < Len(b)
    ELSE IF a = <<>> THEN FALSE
    ELSE IF a[Len(a)] # b[Len(b)] THEN a[Len(a)] < b[Len(b)]
    ELSE BigLess(SubSeq(a, 1, Len(a) - 1), SubSeq(b, 1, Len(b) - 1))

\* round(): to the nearest multiple of d, a tie to the even one.
RoundHalfEven(x, d) ==
    LET q == x \div d
        r == x % d
    IN  IF 2 * r < d THEN q
        ELSE IF 2 * r > d THEN q + 1
        ELSE IF q % 2 = 0 THEN q ELSE q + 1

\* round() of a Big: drops the k low limbs, a tie to the even one.
BigRoundHalfEven(a, k) ==
    LET q == BigVal(SubSeq(a, k + 1, Len(a)))
        low == BigTrim(SubSeq(a, 1, IF k < Len(a) THEN k ELSE Len(a)))
        half == [j \in 1..k |-> IF j = k THEN 5000 ELSE 0]
    IN  IF BigLess(low, half) THEN q
        ELSE IF BigLess(half, low) THEN q + 1
        ELSE IF q % 2 = 0 THEN q ELSE q + 1

-----------------------------------------------------------------------------
(* The record generation loop body, lines 61-111 *)

\* Keys of the dict appended at lines 99-111, in order.
Keys ==
    <<"governorate", "building_type", "rooms", "season", "month", "city",
      "temperature", "price_per_kwh", "tax_rate", "consumption_kwh", "bill_amount">>

KeySet == {Keys[k] : k \in 1..Len(Keys)}

\* Every city of the tables, whatever its governorate.
AllCities ==
    cities_by_gov["Cairo"] \o cities_by_gov["Giza"] \o cities_by_gov["Alexandria"]
    \o cities_by_gov["Sharqia"] \o cities_by_gov["Dakahlia"] \o cities_by_gov["Beheira"]
    \o cities_by_gov["Minya"] \o cities_by_gov["Asyut"] \o cities_by_gov["Luxor"]
    \o cities_by_gov["Suez"]

CityForAnyGov(gov, u) == Choice(AllCities, u)

\* Line 62: a city of the governorate drawn at line 61.
CityFor(gov, u) == Choice(cities_by_gov[gov], u)

RoomsForShifted(btype, u) ==
    IF btype = "Apartment" THEN WeightedChoice(Range(1, 5), <<25, 35, 25, 10, 5>>, u)
    ELSE IF btype = "Villa" THEN WeightedChoice(Range(3, 9), <<15, 13, 11, 9, 7, 5, 3>>, u)
    ELSE WeightedChoice(Range(1, 8), <<8, 7, 6, 5, 4, 3, 2, 1>>, u)

\* Lines 65-70: room count by building type.
RoomsFor(btype, u) ==
    IF btype = "Apartment" THEN WeightedChoice(Range(1, 5), <<25, 35, 25, 10, 5>>, u)
    ELSE IF btype = "Villa" THEN WeightedChoice(Range(3, 9), <<15, 13, 11, 9, 7, 5, 3>>, u)
    ELSE WeightedChoice(Range(1, 7), <<8, 7, 6, 5, 4, 3, 2>>, u)

\* Line 75, in milli-degrees: base + seasonal + normal(0, 2).
Temp(gov, season, z) == 1000 * (base_temp[gov] + seasonal_adjust[season]) + 2 * z

\* Line 77, in units of 10^-9: base * multiplier * (1 + normal(0, 0.03)).
Price(gov, btype, z) == base_price[gov] * building_price_multiplier[btype] * (100000 + 3 * z)

\* Line 78, in units of 10^-7: base * (1 + normal(0, 0.05)).
Tax(gov, z) == tax_base[gov] * (100000 + 5 * z)

\* Lines 81-86.
BaseCons(btype, rooms) ==
    IF btype = "Apartment" THEN 100 + 60 * rooms
    ELSE IF btype = "Villa" THEN 250 + 90 * rooms
    ELSE 300 + 50 * rooms

Max0(x) == IF x > 0 THEN x ELSE 0

\* Lines 88-93, in units of 10^-5; temp in milli-degrees.
SeasonFactor(season, temp) ==
    IF season = "Summer" THEN 100000 + 2 * Max0(temp - 28000)
    ELSE IF season = "Winter" THEN 100000 + 2 * Max0(18000 - temp)
    ELSE 100000

Abs(x) == IF x < 0 THEN -x ELSE x

\* Line 95, in units of 10^-10: base * season_factor * normal(1, 0.12).
\* The noise factor may be zero or negative, so the value is signed.
Consum(base_cons, season_factor, z) ==
    LET noise == 100000 + 12 * z
    IN  [neg |-> noise < 0,
         mag |-> BigMul(Big(base_cons * season_factor), Big(Abs(noise)))]

Floor20Unclamped(c) == c.mag

\* Line 96: max(20, consum), in units of 10^-10.
Floor20(c) ==
    IF c.neg \/ BigLess(c.mag, <<0, 0, 2000>>) THEN <<0, 0, 2000>> ELSE c.mag

BillTaxOnly(consum, price, tax) == BigMul(BigMul(consum, Big(price)), Big(tax))

\* Line 98, in units of 10^-26: consum * price * (1 + tax).
Bill(consum, price, tax) == BigMul(BigMul(consum, Big(price)), Big(10000000 + tax))

\* Lines 61-111: one iteration's record, from the two generator states.
NewRow(py, np) ==
    LET g1 == Advance(py)
        gov == Choice(governorates, g1)
        g2 == Advance(g1)
        city == CityFor(gov, g2)
        g3 == Advance(g2)
        btype == WeightedChoice(building_types, <<70, 15, 15>>, g3)
        r1 == Advance(np)
        rooms == RoomsFor(btype, r1)
        g4 == Advance(g3)
        month == Choice(months, g4)
        season == season_from_month(month)
        r2 == Advance(r1)
        temp == Temp(gov, season, StdNormal(r2))
        r3 == Advance(r2)
        price == Price(gov, btype, StdNormal(r3))
        r4 == Advance(r3)
        tax == Tax(gov, StdNormal(r4))
        r5 == Advance(r4)
        consum == Floor20(Consum(BaseCons(btype, rooms), SeasonFactor(season, temp),
                                 StdNormal(r5)))
        bill == Bill(consum, price, tax)
    IN  [py |-> g4,
         np |-> r5,
         row |-> [governorate |-> gov,
                  building_type |-> btype,
                  rooms |-> rooms,
                  season |-> season,
                  month |-> month,
                  city |-> city,
                  temperature |-> RoundHalfEven(temp, 10),
                  price_per_kwh |-> RoundHalfEven(price, 100000),
                  tax_rate |-> RoundHalfEven(tax, 1000),
                  consumption_kwh |-> BigRoundHalfEven(consum, 2),
                  bill_amount |-> BigRoundHalfEven(bill, 6)]]

-----------------------------------------------------------------------------
(* DataFrame, missingness pass, to_csv: lines 113-133 *)

\* A cell of the frame: <<v>> holds v, <<>> is None/NaN.
None == <<>>

\* pd.DataFrame(rows), line 113: the columns are the keys of the dicts.
DataFrame(rs) ==
    [columns |-> IF rs = <<>> THEN <<>> ELSE Keys,
     data |-> [k \in 1..Len(rs) |-> [c \in KeySet |-> <<rs[k][c]>>]]]

NoFrame == [columns |-> <<>>, data |-> <<>>]

PositionZeroBased(ix) == ix

\* The position the rules test, `idx + 1`.
Position(ix) == ix + 1

NullRulesWithBill ==
    << <<300, "month">>, <<120, "season">>, <<1000, "temperature">>,
       <<1500, "price_per_kwh">>, <<200, "city">>, <<70, "building_type">>,
       <<500, "consumption_kwh">>, <<500, "bill_amount">> >>

\* Lines 117-130: the seven rules, <<divisor, column>>, in order.
NullRules ==
    << <<300, "month">>, <<120, "season">>, <<1000, "temperature">>,
       <<1500, "price_per_kwh">>, <<200, "city">>, <<70, "building_type">>,
       <<500, "consumption_kwh">> >>

\* The columns the rules set to None for index ix.
Nulled(ix) ==
    {NullRules[k][2] : k \in {j \in 1..Len(NullRules) : Position(ix) % NullRules[j][1] = 0}}

ApplyRulesWholeRow(row, ix) ==
    [c \in DOMAIN row |-> IF Nulled(ix) # {} THEN None ELSE row[c]]

\* The body of the loop at line 116 on the row at index ix.
ApplyRules(row, ix) == [c \in DOMAIN row |-> IF c \in Nulled(ix) THEN None ELSE row[c]]

\* Lines 116-130: the loop over df.index, each row in turn.
MissingnessPass(frame) ==
    [frame EXCEPT !.data = [k \in 1..Len(frame.data) |-> ApplyRules(frame.data[k], k - 1)]]

NoFile == [header |-> <<>>, lines |-> <<>>, written |-> FALSE]

\* df.to_csv(out_path, index=False), line 133: the header, then a line per
\* row with the cells in column order; an empty cell is a null.
ToCsvFile(frame) ==
    [header |-> frame.columns,
     lines |-> [k \in 1..Len(frame.data) |->
                  [j \in 1..Len(frame.columns) |-> frame.data[k][frame.columns[j]]]],
     written |-> TRUE]

-----------------------------------------------------------------------------
(* The run *)

\* The state after lines 9-59, for a record count count.
Start(count) ==
    /\ pc = "gen"
    /\ n = count
    /\ i = 0
    /\ rows = <<>>
    /\ built = <<>>
    /\ df = NoFrame
    /\ out = NoFile
    /\ \E e \in Entropy :
         /\ pyState = RandomSeed(Seed, e)
         /\ npState = NpSeed(Seed, e)
    /\ run = 1
    /\ prevOut = NoFile

Init == \E count \in NValues : Start(count)

AppendRowFront(rs, r) == <<r>> \o rs

\* Appending to the list, line 99.
AppendRow(rs, r) == Append(rs, r)

\* One iteration of `for i in range(n)`, lines 60-111.
Generate ==
    /\ pc = "gen"
    /\ i < n
    /\ LET g == NewRow(pyState, npState)
       IN  /\ rows' = AppendRow(rows, g.row)
           /\ built' = Append(built, g.row)
           /\ pyState' = g.py
           /\ npState' = g.np
    /\ i' = i + 1
    /\ UNCHANGED <<pc, n, df, out, run, prevOut>>

\* The loop is over (at once when n <= 0); line 113 assembles the frame.
Assemble ==
    /\ pc = "gen"
    /\ ~(i < n)
    /\ df' = DataFrame(rows)
    /\ pc' = "miss"
    /\ UNCHANGED <<n, i, rows, built, out, pyState, npState, run, prevOut>>

\* The loop `for idx in df.index`, lines 116-130: idx runs over 0..len-1 and
\* the row at idx is the frame's row number idx + 1.
Missingness ==
    /\ pc = "miss"
    /\ df' = MissingnessPass(df)
    /\ pc' = "csv"
    /\ UNCHANGED <<n, i, rows, built, out, pyState, npState, run, prevOut>>

\* Lines 132-138 write the file and print.
ToCsv ==
    /\ pc = "csv"
    /\ out' = ToCsvFile(df)
    /\ pc' = "done"
    /\ UNCHANGED <<n, i, rows, built, df, pyState, npState, run, prevOut>>

Next == Generate \/ Assemble \/ Missingness \/ ToCsv

Spec == Init /\ [][Next]_vars

\* The script is run a second time with the same seed and record count; the
\* file of the first run is kept aside for comparison.
Rerun ==
    /\ pc = "done"
    /\ run = 1
    /\ run' = 2
    /\ prevOut' = out
    /\ pc' = "gen"
    /\ i' = 0
    /\ rows' = <<>>
    /\ built' = <<>>
    /\ df' = NoFrame
    /\ \E e \in Entropy :
         /\ pyState' = RandomSeed(Seed, e)
         /\ npState' = NpSeed(Seed, e)
    /\ UNCHANGED <<n, out>>

NextTwice == Generate \/ Assemble \/ Missingness \/ ToCsv \/ Rerun

InitTwice == \E count \in NValuesTwice : Start(count)

SpecTwice == InitTwice /\ [][NextTwice]_vars

-----------------------------------------------------------------------------
(* Properties *)

\* The missingness pass has visited every row.
PassOver == pc \in {"csv", "done"}

SeqToSet(s) == {s[k] : k \in 1..Len(s)}

\* C1: after the missingness pass, for every 1-based position p in 1..n,
\* month is null if 300 divides p, season if 120 does, temperature if 1000,
\* price_per_kwh if 1500, city if 200, building_type if 70 and
\* consumption_kwh if 500; a position matching several divisors has all the
\* corresponding fields null.
C1_PositionalNulling ==
    PassOver =>
        \A p \in 1..n :
            /\ p % 300 = 0 => df.data[p].month = None
            /\ p % 120 = 0 => df.data[p].season = None
            /\ p % 1000 = 0 => df.data[p].temperature = None
            /\ p % 1500 = 0 => df.data[p].price_per_kwh = None
            /\ p % 200 = 0 => df.data[p].city = None
            /\ p % 70 = 0 => df.data[p].building_type = None
            /\ p % 500 = 0 => df.data[p].consumption_kwh = None

\* The pass is over on at least 1500 rows: every rule has fired, and rules
\* have stacked at positions 600 (season, city) and 1500.
C1_Witness ==
    /\ pc = "done"
    /\ n >= 1500
    /\ df.data[600].season = None /\ df.data[600].city = None
    /\ df.data[600].month = None
    /\ df.data[70].building_type = None
    /\ df.data[1000].temperature = None
    /\ df.data[1500].price_per_kwh = None /\ df.data[1500].consumption_kwh = None

\* C2: the missingness pass never nulls or changes governorate, rooms,
\* tax_rate or bill_amount: in every state every row of the frame holds in
\* these four columns the values the record was given when it was built.
C2_UntouchedColumns ==
    \A k \in 1..Len(df.data) :
        /\ df.data[k].governorate = <<built[k].governorate>>
        /\ df.data[k].rooms = <<built[k].rooms>>
        /\ df.data[k].tax_rate = <<built[k].tax_rate>>
        /\ df.data[k].bill_amount = <<built[k].bill_amount>>

\* The pass is over and has nulled the other seven columns somewhere.
C2_Witness ==
    /\ pc = "done"
    /\ n >= 1500
    /\ \A c \in {"month", "season", "temperature", "price_per_kwh", "city",
                 "building_type", "consumption_kwh"} :
           \E k \in 1..Len(df.data) : df.data[k][c] = None
    /\ df.data[1500].bill_amount # None

\* floor(a * m / 10^8) and whether the division is exact, for a < 10^6 and
\* m < 2 * 10^9, without leaving 32 bits.
MulDiv8(a, m) ==
    LET a1 == a \div 10000
        a0 == a % 10000
        m1 == m \div 10000
        m0 == m % 10000
        t == a1 * m0 + a0 * m1 + ((a0 * m0) \div 10000)
    IN  [floor |-> a1 * m1 + (t \div 10000),
         exact |-> (a0 * m0) % 10000 = 0 /\ t % 10000 = 0]

\* The stored bill (hundredths) is the product of the stored consumption
\* (hundredths), price and 1 + tax (ten-thousandths) up to the rounding of
\* the three factors and of the bill itself: with each factor anywhere in
\* its rounding interval [x - 1/2, x + 1/2], the product rounds to the bill.
BillWithinRounding(r) ==
    LET lo == MulDiv8(2 * r.consumption_kwh - 1,
                      (2 * r.price_per_kwh - 1) * (2 * (10000 + r.tax_rate) - 1))
        hi == MulDiv8(2 * r.consumption_kwh + 1,
                      (2 * r.price_per_kwh + 1) * (2 * (10000 + r.tax_rate) + 1))
    IN  /\ (IF lo.exact THEN lo.floor ELSE lo.floor + 1) <= 4 * (2 * r.bill_amount + 1)
        /\ 4 * (2 * r.bill_amount - 1) <= hi.floor

\* C3: for every record the stored bill_amount equals consumption * price *
\* (1 + tax_rate) of the record's own stored, pre-nulling values within
\* rounding tolerance, and the frame keeps that bill through the
\* missingness pass, also where consumption_kwh or price_per_kwh is nulled.
C3_BillFrozen ==
    /\ \A k \in 1..Len(rows) : BillWithinRounding(rows[k])
    /\ \A k \in 1..Len(df.data) : df.data[k].bill_amount = <<rows[k].bill_amount>>

\* The pass is over; rows 500 and 1500 have lost consumption and price and
\* kept a bill that is not the floor's.
C3_Witness ==
    /\ pc = "done"
    /\ n >= 1500
    /\ df.data[500].consumption_kwh = None
    /\ df.data[1500].price_per_kwh = None
    /\ df.data[500].bill_amount = <<rows[500].bill_amount>>
    /\ rows[500].consumption_kwh > 2000
    /\ rows[1500].consumption_kwh > 2000

\* C4: in every state from generation through output, a record's city, when
\* non-null, is in the city list of the record's governorate.
C4_CityOfGovernorate ==
    /\ \A k \in 1..Len(rows) :
           rows[k].city \in SeqToSet(cities_by_gov[rows[k].governorate])
    /\ \A k \in 1..Len(df.data) :
           df.data[k].city # None =>
               df.data[k].city[1] \in SeqToSet(cities_by_gov[df.data[k].governorate[1]])
    /\ \A k \in 1..Len(out.lines) :
           out.lines[k][6] # None =>
               out.lines[k][6][1] \in SeqToSet(cities_by_gov[out.lines[k][1][1]])

\* The file is written: some cities are null, and all ten governorates and
\* a governorate's every city occur.
C4_Witness ==
    /\ pc = "done"
    /\ n >= 1500
    /\ out.lines[200][6] = None
    /\ out.lines[199][6] # None
    /\ {rows[k].governorate : k \in 1..Len(rows)} = SeqToSet(governorates)
    /\ {rows[k].city : k \in {j \in 1..Len(rows) : rows[j].governorate = "Cairo"}}
           = SeqToSet(cities_by_gov["Cairo"])

RoomsInRange(btype, rooms) ==
    /\ btype = "Apartment" => 1 <= rooms /\ rooms <= 5
    /\ btype = "Villa" => 3 <= rooms /\ rooms <= 9
    /\ btype = "Office" => 1 <= rooms /\ rooms <= 7

\* C5: every record's rooms lies in the range of the building category drawn
\* for it when it was built (Apartment 1..5, Villa 3..9, Office 1..7), in the
\* list and in the frame, also where the frame's building_type is nulled.
C5_RoomsInCategoryRange ==
    /\ \A k \in 1..Len(rows) :
           /\ rows[k].building_type \in SeqToSet(building_types)
           /\ RoomsInRange(rows[k].building_type, rows[k].rooms)
    /\ \A k \in 1..Len(df.data) :
           /\ df.data[k].rooms # None
           /\ RoomsInRange(built[k].building_type, df.data[k].rooms[1])
           /\ df.data[k].building_type # None =>
                  df.data[k].building_type = <<built[k].building_type>>

\* The pass is over; row 70 has lost its building type; every category has
\* reached both ends of its range.
C5_Witness ==
    /\ pc = "done"
    /\ n >= 1500
    /\ df.data[70].building_type = None
    /\ df.data[70].rooms # None
    /\ \A b \in {<<"Apartment", 1>>, <<"Apartment", 5>>, <<"Villa", 3>>, <<"Villa", 9>>,
                 <<"Office", 1>>, <<"Office", 7>>} :
           \E k \in 1..Len(built) : built[k].building_type = b[1] /\ built[k].rooms = b[2]

\* C6: consumption_kwh is at least 20 (2000 hundredths) whenever it is
\* non-null, whatever category, rooms, seasonal multiplier and noise were
\* drawn.
C6_ConsumptionFloor ==
    /\ \A k \in 1..Len(rows) : rows[k].consumption_kwh >= 2000
    /\ \A k \in 1..Len(df.data) :
           df.data[k].consumption_kwh # None => df.data[k].consumption_kwh[1] >= 2000

\* A record whose noise factor was negative or near zero sits on the floor,
\* in the frame as in the list, next to records well above it.
C6_Witness ==
    /\ pc = "done"
    /\ n >= 1500
    /\ \E k \in 1..Len(df.data) : df.data[k].consumption_kwh = <<2000>>
    /\ \E k \in 1..Len(df.data) :
           df.data[k].consumption_kwh # None /\ df.data[k].consumption_kwh[1] > 100000
    /\ df.data[500].consumption_kwh = None

\* What line k of the file shows of record r: every cell empty or r's value,
\* and the four columns no rule touches always r's value.
LineShows(line, r) ==
    /\ Len(line) = 11
    /\ line[1] = <<r.governorate>>
    /\ line[2] \in {None, <<r.building_type>>}
    /\ line[3] = <<r.rooms>>
    /\ line[4] \in {None, <<r.season>>}
    /\ line[5] \in {None, <<r.month>>}
    /\ line[6] \in {None, <<r.city>>}
    /\ line[7] \in {None, <<r.temperature>>}
    /\ line[8] \in {None, <<r.price_per_kwh>>}
    /\ line[9] \in {None, <<r.tax_rate>>}
    /\ line[10] \in {None, <<r.consumption_kwh>>}
    /\ line[11] = <<r.bill_amount>>

\* C7: for a valid record count n (n >= 1) the run terminates with exactly n
\* rows in the file, in generation order: the record built in iteration i
\* (0-based) is line i+1; the pass adds, drops and reorders no row; the rows
\* follow the header governorate,...,bill_amount.  Termination: the run is
\* in its generation loop, whose counter is bounded by n, or in one of the
\* three steps that follow it.
C7_RowsInGenerationOrder ==
    /\ Len(built) = i
    /\ n >= 1 => i <= n
    /\ pc \in {"gen", "miss", "csv", "done"}
    /\ pc # "gen" => Len(df.data) = Len(built)
    /\ (pc = "done" /\ n >= 1) =>
           /\ out.written
           /\ out.header = <<"governorate", "building_type", "rooms", "season", "month",
                             "city", "temperature", "price_per_kwh", "tax_rate",
                             "consumption_kwh", "bill_amount">>
           /\ Len(out.lines) = n
           /\ \A k \in 1..n : LineShows(out.lines[k], built[k])

\* A file of 1500 lines whose neighbours differ.
C7_Witness ==
    /\ pc = "done"
    /\ n >= 1500
    /\ Len(out.lines) = n
    /\ built[1] # built[2]
    /\ built[n - 1] # built[n]

\* C8: an invalid record count (n <= 0) fails fast: no record is generated,
\* the frame is not assembled, the pass does not run, no file is written.
C8_InvalidCountFailsFast ==
    n <= 0 => /\ rows = <<>>
              /\ pc = "gen"
              /\ df = NoFrame
              /\ ~out.written

\* C9: with the same seed and the same record count, two runs write the same
\* file: the same value or the same null in every field of every line.
C9_SameSeedSameFile ==
    (run = 2 /\ pc = "done") => out = prevOut

\* The second run has written 150 lines, nulls included.
C9_Witness ==
    /\ run = 2
    /\ pc = "done"
    /\ n >= 150
    /\ prevOut.written
    /\ Len(out.lines) = n
    /\ out.lines[70][2] = None
    /\ out.lines[71][2] # None
    /\ out.lines[120][4] = None
    /\ out.lines[1] # out.lines[2]

\* C10: the pass nulls nothing beyond its seven rules: after it, a field of
\* the row at position p is null only if p is divisible by the field's
\* divisor; a row at a position divisible by none of 70, 120, 200, 300, 500
\* has no null; a null price comes with null month and consumption; a null
\* temperature comes with null city and consumption.
C10_NothingElseNulled ==
    PassOver =>
        \A p \in 1..Len(df.data) :
            LET r == df.data[p] IN
            /\ r.month = None => p % 300 = 0
            /\ r.season = None => p % 120 = 0
            /\ r.temperature = None => p % 1000 = 0
            /\ r.price_per_kwh = None => p % 1500 = 0
            /\ r.city = None => p % 200 = 0
            /\ r.building_type = None => p % 70 = 0
            /\ r.consumption_kwh = None => p % 500 = 0
            /\ r.governorate # None /\ r.rooms # None
            /\ r.tax_rate # None /\ r.bill_amount # None
            /\ (\A d \in {70, 120, 200, 300, 500} : p % d # 0) =>
                   \A c \in DOMAIN r : r[c] # None
            /\ r.price_per_kwh = None => r.month = None /\ r.consumption_kwh = None
            /\ r.temperature = None => r.city = None /\ r.consumption_kwh = None

\* The pass is over on 1500 rows: rows next to nulled ones are whole, and
\* the rows with a null price or temperature exist.
C10_Witness ==
    /\ pc = "done"
    /\ n >= 1500
    /\ \A c \in DOMAIN df.data[69] : df.data[69][c] # None
    /\ \A c \in DOMAIN df.data[1499] : df.data[1499][c] # None
    /\ df.data[1500].price_per_kwh = None
    /\ df.data[1000].temperature = None
    /\ df.data[140].season # None

====
